---- MODULE Spec2Model ----
(***************************************************************************)
(* A model of src/parser.ts of ts-unused-exports: the filename normalizer  *)
(* (extractFilename), the suppression-comment check, the per-file mapper   *)
(* (mapFile) and the project parser (parsePaths).                          *)
(*                                                                         *)
(* Strings of the program are sequences of one-character strings, so that  *)
(* indexOf, substr, replace and concatenation are computed, not assumed.   *)
(***************************************************************************)
EXTENDS Integers, Sequences, FiniteSets, TLC

VARIABLES
    \* extractFilename
    rootDir, path, name, npc,
    \* mapFile
    imports, exports, exportLocations, fired, node, visited, mpc, file,
    \* parsePaths
    filePaths, extraOptions, surviving, idx, acc, reads, returned, ppc

nameVars == <<rootDir, path, name, npc>>
mapVars == <<imports, exports, exportLocations, fired, node, visited, mpc, file>>
pathsVars == <<filePaths, extraOptions, surviving, idx, acc, reads, returned, ppc>>
vars == <<nameVars, mapVars, pathsVars>>

-----------------------------------------------------------------------------
(* Bounds of the model *)

MaxStmts == 3
MaxFiles == 3

-----------------------------------------------------------------------------
(* Strings *)

Slash == "/"
Dot == "."

\* s.indexOf(sub), 0-based, -1 when absent
RECURSIVE IndexFrom(_, _, _)
IndexFrom(s, sub, i) ==
    IF i + Len(sub) - 1 > Len(s) THEN -1
    ELSE IF SubSeq(s, i, i + Len(sub) - 1) = sub THEN i - 1
    ELSE IndexFrom(s, sub, i + 1)

indexOf(s, sub) == IndexFrom(s, sub, 1)

\* 1-based position of the last "." of s, 0 when there is none
RECURSIVE LastDotFrom(_, _)
LastDotFrom(s, i) ==
    IF i = 0 THEN 0
    ELSE IF s[i] = Dot THEN i
    ELSE LastDotFrom(s, i - 1)

LastDot(s) == LastDotFrom(s, Len(s))

\* s.split('/')
RECURSIVE SplitFrom(_, _, _)
SplitFrom(s, i, cur) ==
    IF i > Len(s) THEN <<cur>>
    ELSE IF s[i] = Slash THEN <<cur>> \o SplitFrom(s, i + 1, <<>>)
    ELSE SplitFrom(s, i + 1, Append(cur, s[i]))

Split(s) == SplitFrom(s, 1, <<>>)

\* segs.join('/')
RECURSIVE Join(_)
Join(segs) ==
    IF segs = <<>> THEN <<>>
    ELSE IF Len(segs) = 1 THEN segs[1]
    ELSE segs[1] \o <<Slash>> \o Join(Tail(segs))

\* the segments of a path with "", "." dropped and ".." applied
RECURSIVE NormSegs(_, _)
NormSegs(segs, out) ==
    IF segs = <<>> THEN out
    ELSE LET h == segs[1] IN
         IF h = <<>> \/ h = <<Dot>> THEN NormSegs(Tail(segs), out)
         ELSE IF h = <<Dot, Dot>>
              THEN NormSegs(Tail(segs),
                            IF out = <<>> THEN out ELSE SubSeq(out, 1, Len(out) - 1))
              ELSE NormSegs(Tail(segs), Append(out, h))

IsAbsolute(p) == p # <<>> /\ p[1] = Slash

\* path.resolve(from, p) for an absolute from
resolve(from, p) ==
    LET full == IF IsAbsolute(p) THEN p ELSE from \o <<Slash>> \o p
    IN <<Slash>> \o Join(NormSegs(Split(full), <<>>))

RECURSIVE CommonPrefix(_, _)
CommonPrefix(a, b) ==
    IF a = <<>> \/ b = <<>> \/ a[1] # b[1] THEN 0
    ELSE 1 + CommonPrefix(Tail(a), Tail(b))

\* path.relative(from, to) for absolute paths
relative(from, to) ==
    LET fs == NormSegs(Split(from), <<>>)
        ts == NormSegs(Split(to), <<>>)
        c == CommonPrefix(fs, ts)
        ups == [i \in 1..(Len(fs) - c) |-> <<Dot, Dot>>]
    IN Join(ups \o SubSeq(ts, c + 1, Len(ts)))

-----------------------------------------------------------------------------
(* extractFilename, parser.ts 27-38 *)

IndexWord == <<"i", "n", "d", "e", "x">>

\* s.replace(/([\\/]index)?\.[^.]*$/, ''): the match ends the string and holds
\* no "." after its first, so it starts at the last "." of s, or six characters
\* before it when those are a separator followed by "index".
StripIndexAndExtension(s) ==
    LET d == LastDot(s) IN
    IF d = 0 THEN s
    ELSE IF d >= 7 /\ s[d - 6] \in {Slash, "\\"} /\ SubSeq(s, d - 5, d - 1) = IndexWord
         THEN SubSeq(s, 1, d - 7)
         ELSE SubSeq(s, 1, d - 1)

\* !!name.match(/\.d$/)
EndsWithDotD(s) == Len(s) >= 2 /\ s[Len(s) - 1] = Dot /\ s[Len(s)] = "d"

extractFilename(root, p) ==
    LET n == StripIndexAndExtension(relative(root, p)) IN
    IF EndsWithDotD(n) THEN SubSeq(n, 1, Len(n) - 2) ELSE n

-----------------------------------------------------------------------------
(* Inputs of extractFilename: root directories, base names, file forms *)

Roots == { <<Slash, "r">>, <<Slash, "r", Slash, "s">>, <<Slash, "p", Dot, "q">> }
BaseNames == { <<"f", "o", "o">>, <<"a">>, <<"l", "i", "b", Slash, "u">>, IndexWord }

ExtTs == <<Dot, "t", "s">>
ExtDts == <<Dot, "d", Dot, "t", "s">>
ExtTsx == <<Dot, "t", "s", "x">>
IndexSeg == <<Slash>> \o IndexWord

\* the forms of a module file under base name b
FormPlain(b) == b \o ExtTs
FormIndex(b) == b \o IndexSeg \o ExtTs
FormDecl(b) == b \o ExtDts
FormIndexDecl(b) == b \o IndexSeg \o ExtDts
FormTsx(b) == b \o ExtTsx
FormNoExt(b) == b

Forms(b) == { FormPlain(b), FormIndex(b), FormDecl(b), FormIndexDecl(b),
              FormTsx(b), FormNoExt(b) }

NoName == <<"?">>

NameInit ==
    /\ rootDir \in Roots
    /\ \E b \in BaseNames : \E f \in Forms(b) : path = rootDir \o <<Slash>> \o f
    /\ name = NoName
    /\ npc = "call"

Normalize ==
    /\ npc = "call"
    /\ name' = extractFilename(rootDir, path)
    /\ npc' = "done"
    /\ UNCHANGED <<rootDir, path>>

-----------------------------------------------------------------------------
(* Optional values: string | undefined *)

None == <<>>
Some(x) == <<x>>

\* JavaScript truthiness of a string | undefined: undefined and '' are falsy
Truthy(opt) == opt # None /\ opt[1] # <<>>

-----------------------------------------------------------------------------
(* Top-level statements, as the TypeScript parser hands them to mapFile.    *)
(* A statement carries its kind, the texts of its leading comments, and    *)
(* what the extractors of parser.import / parser.export / parser.dynamic   *)
(* read off it.                                                            *)

Directive == "// ts-unused-exports:disable-next-line"
NearDirective == "// ts-unused-exports:disable-next-line "
OtherComment == "// note"

CommentLists == { <<>>, <<Directive>>, <<NearDirective>>,
                  <<Directive, OtherComment>>, <<OtherComment, Directive>> }

\* parser.common: star
star == << <<"*">> >>

DefaultName == <<"d", "e", "f", "a", "u", "l", "t">>

SpecM == <<Dot, Slash, "m">>
SpecReact == <<"r", "e", "a", "c", "t">>
Specifiers == { SpecM, SpecReact }

NameX == <<"x">>
NameA == <<"a">>
NameC == <<"c">>
NameF == <<"f">>
NameV == <<"v">>

Stmt(k, fr, wh, ns, ms, dn, ex, md, dy) ==
    [kind |-> k, from |-> fr, what |-> wh, names |-> ns, mods |-> ms,
     declName |-> dn, extracted |-> ex, mayDyn |-> md, dyn |-> dy]

\* import { x } from S
ImportStmts ==
    { Stmt("ImportDeclaration", Some(s), <<NameX>>, <<>>, {}, None, None, FALSE, <<>>)
        : s \in Specifiers }

\* export default <expr>, export = <expr>; the expression may hold import(...)
ExportAssignmentStmts ==
    { Stmt("ExportAssignment", None, <<>>, <<>>, {}, None, None, d # <<>>, d)
        : d \in { <<>>, <<SpecM>> } }

\* export { a, b as c }
LocalExportStmts ==
    { Stmt("ExportDeclaration", None, <<>>, <<NameA, NameC>>, {}, None, None, FALSE, <<>>) }

\* export * from S, export { x } from S
ExportFromStmts ==
    { Stmt("ExportDeclaration", Some(s), w, <<>>, {}, None, None, FALSE, <<>>)
        : s \in Specifiers, w \in { star, <<NameX>> } }

\* the text may hold "import(" without a dynamic import in it; a dynamic
\* import is always in the text
DynCases == { <<FALSE, <<>>>>, <<TRUE, <<>>>>, <<TRUE, <<SpecM>>>>, <<TRUE, <<SpecReact>>>> }

\* every other statement: its modifiers, its own name, the name extractExport
\* derives for it when it has none
OtherStmts ==
    { Stmt("Other", None, <<>>, <<>>, {}, None, None, d[1], d[2]) : d \in DynCases }
    \cup
    { Stmt("Other", None, <<>>, <<>>, {"export", "default"}, Some(NameF), None, d[1], d[2])
        : d \in DynCases }
    \cup
    { Stmt("Other", None, <<>>, <<>>, {"export"}, nm[1], nm[2], d[1], d[2])
        : nm \in { <<Some(NameF), None>>, <<None, Some(NameV)>>, <<None, None>> },
          d \in DynCases }

Shapes == ImportStmts \cup ExportAssignmentStmts \cup LocalExportStmts
            \cup ExportFromStmts \cup OtherStmts

Statements ==
    { [comments |-> c, stmt |-> s] : c \in CommentLists, s \in Shapes }

NoNode == [comments |-> <<>>, stmt |-> Stmt("None", None, <<>>, <<>>, {}, None, None, FALSE, <<>>)]

-----------------------------------------------------------------------------
(* hasModifier, parser.ts 24-25 *)

hasModifier(n, mod) == mod \in n.stmt.mods

(* isNodeDisabledViaComment, parser.ts 40-60 *)

isNodeDisabledViaComment_anyComment(n) ==
    \E i \in 1..Len(n.comments) : n.comments[i] = Directive

isNodeDisabledViaComment(n) ==
    IF n.comments # <<>>
    THEN n.comments[Len(n.comments)] = Directive
    ELSE FALSE

-----------------------------------------------------------------------------
(* The collaborators of mapFile that live in parser.import, parser.export   *)
(* and parser.dynamic                                                      *)

\* dirname of an absolute path
dirname(p) ==
    LET segs == NormSegs(Split(p), <<>>)
    IN <<Slash>> \o Join(SubSeq(segs, 1, Len(segs) - 1))

\* the module key of a specifier: a relative specifier resolves against the
\* importing file's directory; any other has no key without an alias table
OrDot(k) == IF k = <<>> THEN <<Dot>> ELSE k

getKey(root, p, from) ==
    IF from # <<>> /\ from[1] = Dot
    THEN Some(OrDot(relative(root, resolve(dirname(p), from))))
    ELSE None

\* addImportCore: imports[key] = (imports[key] || []).concat(what); returns key
ItemsOf(imps, k) == IF k \in DOMAIN imps THEN imps[k] ELSE <<>>

AddItems(imps, k, what) ==
    [j \in DOMAIN imps \cup {k} |-> IF j = k THEN ItemsOf(imps, k) \o what ELSE imps[j]]

AddUnderKey(fw, imps, key) ==
    IF ~Truthy(key) THEN [imports |-> imps, key |-> None]
    ELSE [imports |-> AddItems(imps, key[1], fw.what), key |-> key]

addImportCore(fw, root, p, imps) == AddUnderKey(fw, imps, getKey(root, p, fw.from))

\* addExportCore: exports.push(name); exportLocations.push(location of node)
addExportCore(exportName, pos, locs, exps) ==
    [exports |-> Append(exps, exportName),
     exportLocations |-> Append(locs, [name |-> exportName, pos |-> pos])]

extractImport(n) == [from |-> n.stmt.from[1], what |-> n.stmt.what]
extractExportFromImport(n) == [from |-> n.stmt.from[1], what |-> n.stmt.what]
extractExportStatement(n) == n.stmt.names
extractExport(n) == n.stmt.extracted
mayContainDynamicImports(n) == n.stmt.mayDyn

\* addDynamicImports(node, addImport): addImport for every import(...) found
RECURSIVE addDynamicImports(_, _, _, _)
addDynamicImports(specs, root, p, imps) ==
    IF specs = <<>> THEN imps
    ELSE addDynamicImports(Tail(specs), root, p,
            addImportCore([from |-> specs[1], what |-> star], root, p, imps).imports)

-----------------------------------------------------------------------------
(* mapFile, parser.ts 62-158.  st holds the closure's imports, exports and  *)
(* exportLocations, and fired: the branches the current statement ran.     *)

EmptyImports == [k \in {} |-> <<>>]

NewState == [imports |-> EmptyImports, exports |-> <<>>, exportLocations |-> <<>>,
             fired |-> {}]

\* addExport, parser.ts 91-93
Pushed(st, r) == [st EXCEPT !.exports = r.exports, !.exportLocations = r.exportLocations]

addExport(st, exportName, pos) ==
    Pushed(st, addExportCore(exportName, pos, st.exportLocations, st.exports))

RECURSIVE addExports(_, _, _)
addExports(st, names, pos) ==
    IF names = <<>> THEN st
    ELSE addExports(addExport(st, names[1], pos), Tail(names), pos)

WildcardEntry(key) == <<"*", ":">> \o key

\* parser.ts 102-105
ImportBranch(st, n, root, p) ==
    [st EXCEPT !.imports = addImportCore(extractImport(n), root, p, st.imports).imports,
               !.fired = @ \cup {"import"}]

\* parser.ts 107-110
ExportAssignmentBranch(st, n, pos) ==
    [addExport(st, DefaultName, pos) EXCEPT !.fired = @ \cup {"exportAssignment"}]

\* parser.ts 115-117
LocalExportBranch(st, n, pos) ==
    [addExports(st, extractExportStatement(n), pos) EXCEPT !.fired = @ \cup {"exportLocal"}]

ReExport_noImport(st, fw, r, pos) ==
    IF Truthy(r.key)
    THEN IF fw.what = star
         THEN addExport(st, WildcardEntry(r.key[1]), pos)
         ELSE [st EXCEPT !.exports = @ \o fw.what]
    ELSE st

ReExport_expanded(st, fw, r, pos) ==
    IF Truthy(r.key)
    THEN [st EXCEPT !.imports = r.imports, !.exports = @ \o fw.what]
    ELSE [st EXCEPT !.imports = r.imports]

\* parser.ts 120-128: r is what addImport(fw) did and returned
ReExport(st, fw, r, pos) ==
    IF Truthy(r.key)
    THEN IF fw.what = star
         THEN addExport([st EXCEPT !.imports = r.imports], WildcardEntry(r.key[1]), pos)
         ELSE [st EXCEPT !.imports = r.imports, !.exports = @ \o fw.what]
    ELSE [st EXCEPT !.imports = r.imports]

ReExportFrom(st, fw, pos, root, p) ==
    ReExport(st, fw, addImportCore(fw, root, p, st.imports), pos)

\* parser.ts 118-130
ExportFromBranch(st, n, pos, root, p) ==
    ReExportFrom([st EXCEPT !.fired = @ \cup {"exportFrom"}],
                 extractExportFromImport(n), pos, root, p)

ClassifiedBranches_fallThrough(st, n, pos, root, p) ==
    LET k == n.stmt.kind IN
    IF k = "ImportDeclaration"
    THEN [st |-> ImportBranch(st, n, root, p), done |-> TRUE]
    ELSE IF k = "ExportAssignment"
    THEN [st |-> ExportAssignmentBranch(st, n, pos), done |-> FALSE]
    ELSE IF k = "ExportDeclaration"
    THEN IF n.stmt.from = None
         THEN [st |-> LocalExportBranch(st, n, pos), done |-> TRUE]
         ELSE [st |-> ExportFromBranch(st, n, pos, root, p), done |-> TRUE]
    ELSE [st |-> st, done |-> FALSE]

\* parser.ts 100-131: the branches that end the callback with return
ClassifiedBranches(st, n, pos, root, p) ==
    LET k == n.stmt.kind IN
    IF k = "ImportDeclaration"
    THEN [st |-> ImportBranch(st, n, root, p), done |-> TRUE]
    ELSE IF k = "ExportAssignment"
    THEN [st |-> ExportAssignmentBranch(st, n, pos), done |-> TRUE]
    ELSE IF k = "ExportDeclaration"
    THEN IF n.stmt.from = None
         THEN [st |-> LocalExportBranch(st, n, pos), done |-> TRUE]
         ELSE [st |-> ExportFromBranch(st, n, pos, root, p), done |-> TRUE]
    ELSE [st |-> st, done |-> FALSE]

\* parser.ts 135-137
DynamicBranch(st, n, root, p) ==
    [st EXCEPT !.imports = addDynamicImports(n.stmt.dyn, root, p, st.imports),
               !.fired = @ \cup {"dynamic"}]

\* parser.ts 144-145: decl.name ? decl.name.text : extractExport(path, node)
ExportedName(n) == IF n.stmt.declName # None THEN n.stmt.declName ELSE extractExport(n)

AddIfNamed(st, nm, pos) == IF Truthy(nm) THEN addExport(st, nm[1], pos) ELSE st

ExportWithModifier_alsoDeclared(st, n, pos) ==
    IF hasModifier(n, "default")
    THEN AddIfNamed(addExport(st, DefaultName, pos), ExportedName(n), pos)
    ELSE AddIfNamed(st, ExportedName(n), pos)

\* parser.ts 140-147
ExportWithModifier(st, n, pos) ==
    IF hasModifier(n, "default")
    THEN addExport(st, DefaultName, pos)
    ELSE AddIfNamed(st, ExportedName(n), pos)

\* parser.ts 139-148
ExportModifierBranch(st, n, pos) ==
    IF hasModifier(n, "export")
    THEN ExportWithModifier([st EXCEPT !.fired = @ \cup {"exportModifier"}], n, pos)
    ELSE st

\* parser.ts 133-148
UnclassifiedBranches(st, n, pos, root, p) ==
    ExportModifierBranch(
        IF mayContainDynamicImports(n) THEN DynamicBranch(st, n, root, p) ELSE st,
        n, pos)

Continue(r, n, pos, root, p) ==
    IF r.done THEN r.st ELSE UnclassifiedBranches(r.st, n, pos, root, p)

\* the callback of ts.forEachChild, parser.ts 95-149
VisitNode(st, n, pos, root, p) ==
    IF isNodeDisabledViaComment(n)
    THEN [st EXCEPT !.fired = {"skip"}]
    ELSE Continue(ClassifiedBranches([st EXCEPT !.fired = {}], n, pos, root, p),
                  n, pos, root, p)

RECURSIVE VisitAll(_, _, _, _, _)
VisitAll(st, tree, pos, root, p) ==
    IF tree = <<>> THEN st
    ELSE VisitAll(VisitNode(st, tree[1], pos, root, p), Tail(tree), pos + 1, root, p)

\* the File mapFile returns, parser.ts 151-157
MakeFile(st, root, p) ==
    [path |-> extractFilename(root, p), fullPath |-> p, imports |-> st.imports,
     exports |-> st.exports, exportLocations |-> st.exportLocations]

mapFile(root, p, tree) == MakeFile(VisitAll(NewState, tree, 1, root, p), root, p)

-----------------------------------------------------------------------------
(* mapFile, one top-level statement at a time *)

NoFile == [path |-> NoName, fullPath |-> <<>>, imports |-> EmptyImports,
           exports |-> <<>>, exportLocations |-> <<>>]

MapRoot == <<Slash, "r">>
MapPath == <<Slash, "r", Slash, "a", Dot, "t", "s">>

MapInit ==
    /\ rootDir = MapRoot
    /\ path = MapPath
    /\ imports = NewState.imports
    /\ exports = NewState.exports
    /\ exportLocations = NewState.exportLocations
    /\ fired = {}
    /\ node = NoNode
    /\ visited = 0
    /\ mpc = "walking"
    /\ file = NoFile

CurrentState == [imports |-> imports, exports |-> exports,
                 exportLocations |-> exportLocations, fired |-> fired]

Becomes(st) ==
    /\ imports' = st.imports
    /\ exports' = st.exports
    /\ exportLocations' = st.exportLocations
    /\ fired' = st.fired

Visit ==
    /\ mpc = "walking"
    /\ visited < MaxStmts
    /\ \E n \in Statements :
         /\ node' = n
         /\ Becomes(VisitNode(CurrentState, n, visited + 1, rootDir, path))
    /\ visited' = visited + 1
    /\ UNCHANGED <<rootDir, path, mpc, file>>

ReturnFile ==
    /\ mpc = "walking"
    /\ file' = MakeFile(CurrentState, rootDir, path)
    /\ mpc' = "returned"
    /\ UNCHANGED <<rootDir, path, imports, exports, exportLocations, fired, node, visited>>

-----------------------------------------------------------------------------
(* parseFile and parsePaths, parser.ts 160-192 *)

DeclMarker == <<Dot, "d", Dot>>

\* the paths a tsConfig.files list is drawn from
PathA == <<"a">> \o ExtTs
PathADecl == <<"a">> \o ExtDts
PathBIndex == <<"b">> \o IndexSeg \o ExtTs
PathTypesDecl == <<"t", Slash, "g">> \o ExtDts
ConfigPaths == { PathA, PathADecl, PathBIndex, PathTypesDecl }

RECURSIVE SeqsUpTo(_, _)
SeqsUpTo(S, n) ==
    IF n = 0 THEN { <<>> }
    ELSE LET shorter == SeqsUpTo(S, n - 1)
         IN shorter \cup { Append(q, x) : q \in { r \in shorter : Len(r) = n - 1 }, x \in S }

\* ExtraCommandLineOptions: the argument may be absent, and so may the field
ExtraOptionsValues ==
    { None } \cup { Some([excludeDeclarationFiles |-> v]) : v \in {"undefined", "true", "false"} }

\* the text of a file on disk, parsed: a declaration file declares f, any
\* other file imports x from ./m and exports f
ExportedDecl == [comments |-> <<>>,
                 stmt |-> Stmt("Other", None, <<>>, <<>>, {"export"}, Some(NameF), None, FALSE, <<>>)]
ImportOfM == [comments |-> <<>>,
              stmt |-> Stmt("ImportDeclaration", Some(SpecM), <<NameX>>, <<>>, {}, None, None, FALSE, <<>>)]

createSourceFile(p) ==
    IF indexOf(p, DeclMarker) # -1 THEN <<ExportedDecl>> ELSE <<ImportOfM, ExportedDecl>>

\* parseFile, parser.ts 160-177, when readFileSync succeeds
parseFile(root, p) == mapFile(root, p, createSourceFile(p))

\* parser.ts 184-185, as the truth value the filter reads
includeDeclarationFiles(opts) ==
    opts # None /\ opts[1].excludeDeclarationFiles # "true"

RECURSIVE FilterFrom(_, _)
FilterFrom(q, opts) ==
    IF q = <<>> THEN <<>>
    ELSE IF includeDeclarationFiles(opts) \/ indexOf(q[1], DeclMarker) = -1
         THEN <<q[1]>> \o FilterFrom(Tail(q), opts)
         ELSE FilterFrom(Tail(q), opts)

RECURSIVE FilterPaths_unique(_, _)
FilterPaths_unique(q, opts) ==
    IF q = <<>> THEN <<>>
    ELSE IF (includeDeclarationFiles(opts) \/ indexOf(q[Len(q)], DeclMarker) = -1)
            /\ \A i \in 1..(Len(q) - 1) : q[i] # q[Len(q)]
         THEN Append(FilterPaths_unique(SubSeq(q, 1, Len(q) - 1), opts), q[Len(q)])
         ELSE FilterPaths_unique(SubSeq(q, 1, Len(q) - 1), opts)

\* filePaths.filter(p => includeDeclarationFiles || p.indexOf('.d.') === -1), parser.ts 187-188
FilterPaths(q, opts) == FilterFrom(q, opts)

NoResult == None

PathsInit ==
    /\ rootDir = MapRoot
    /\ filePaths \in SeqsUpTo(ConfigPaths, MaxFiles)
    /\ extraOptions \in ExtraOptionsValues
    /\ surviving = <<>>
    /\ idx = 0
    /\ acc = <<>>
    /\ reads = <<>>
    /\ returned = NoResult
    /\ ppc = "filter"

\* .filter(...) runs over the whole list before .map(...) starts
Filter ==
    /\ ppc = "filter"
    /\ surviving' = FilterPaths(filePaths, extraOptions)
    /\ ppc' = "map"
    /\ UNCHANGED <<rootDir, filePaths, extraOptions, idx, acc, reads, returned>>

\* one call of the .map(...) callback that returns a File, parser.ts 189
ParseNext ==
    /\ ppc = "map"
    /\ idx < Len(surviving)
    /\ reads' = Append(reads, resolve(rootDir, surviving[idx + 1]))
    /\ acc' = Append(acc, parseFile(rootDir, resolve(rootDir, surviving[idx + 1])))
    /\ idx' = idx + 1
    /\ UNCHANGED <<rootDir, filePaths, extraOptions, surviving, returned, ppc>>

ParseThrow_swallowed ==
    /\ ppc = "map"
    /\ idx < Len(surviving)
    /\ reads' = Append(reads, resolve(rootDir, surviving[idx + 1]))
    /\ returned' = Some(acc)
    /\ ppc' = "threw"
    /\ UNCHANGED <<rootDir, filePaths, extraOptions, surviving, idx, acc>>

\* one call of the .map(...) callback in which readFileSync or createSourceFile
\* throws: nothing catches it, parser.ts 169-171, 187-191, 194-200
ParseThrow ==
    /\ ppc = "map"
    /\ idx < Len(surviving)
    /\ reads' = Append(reads, resolve(rootDir, surviving[idx + 1]))
    /\ ppc' = "threw"
    /\ UNCHANGED <<rootDir, filePaths, extraOptions, surviving, idx, acc, returned>>

\* return files, parser.ts 191
ReturnFiles ==
    /\ ppc = "map"
    /\ idx = Len(surviving)
    /\ returned' = Some(acc)
    /\ ppc' = "done"
    /\ UNCHANGED <<rootDir, filePaths, extraOptions, surviving, idx, acc, reads>>

-----------------------------------------------------------------------------
(* Specifications: one per entry point *)

NameIdle == /\ path = <<>> /\ name = NoName /\ npc = "idle"

MapIdle ==
    /\ imports = EmptyImports /\ exports = <<>> /\ exportLocations = <<>>
    /\ fired = {} /\ node = NoNode /\ visited = 0 /\ mpc = "idle" /\ file = NoFile

PathsIdle ==
    /\ filePaths = <<>> /\ extraOptions = None /\ surviving = <<>> /\ idx = 0
    /\ acc = <<>> /\ reads = <<>> /\ returned = NoResult /\ ppc = "idle"

InitName == NameInit /\ MapIdle /\ PathsIdle
NextName == Normalize /\ UNCHANGED <<mapVars, pathsVars>>
SpecName == InitName /\ [][NextName]_vars

InitMap == MapInit /\ name = NoName /\ npc = "idle" /\ PathsIdle
NextMap ==
    \/ Visit /\ UNCHANGED <<name, npc, pathsVars>>
    \/ ReturnFile /\ UNCHANGED <<name, npc, pathsVars>>
SpecMap == InitMap /\ [][NextMap]_vars

InitPaths == PathsInit /\ NameIdle /\ MapIdle
NextPaths ==
    \/ Filter /\ UNCHANGED <<path, name, npc, mapVars>>
    \/ ParseNext /\ UNCHANGED <<path, name, npc, mapVars>>
    \/ ParseThrow /\ UNCHANGED <<path, name, npc, mapVars>>
    \/ ReturnFiles /\ UNCHANGED <<path, name, npc, mapVars>>
SpecPaths == InitPaths /\ [][NextPaths]_vars

Init == InitName \/ InitMap \/ InitPaths
Next == NextName \/ NextMap \/ NextPaths
Spec == Init /\ [][Next]_vars

-----------------------------------------------------------------------------
(* Properties of parsePaths, checked under SpecPaths *)

IsDeclarationPath(p) == indexOf(p, DeclMarker) # -1

ExplicitlyExcluded ==
    extraOptions # None /\ extraOptions[1].excludeDeclarationFiles = "true"

ReturnedFullPaths == { returned[1][j].fullPath : j \in DOMAIN returned[1] }

\* C1: a declaration path is dropped from the result only when
\* excludeDeclarationFiles is explicitly true; with the option false, absent
\* from the object, or no extraOptions at all, every declaration path of
\* tsConfig.files yields a File.
C1_DeclarationsKeptUnlessExcluded ==
    ppc = "done" =>
        \A i \in DOMAIN filePaths :
            IsDeclarationPath(filePaths[i]) =>
                (resolve(rootDir, filePaths[i]) \in ReturnedFullPaths) = ~ExplicitlyExcluded

\* the paths that pass the filter, in the order of tsConfig.files
Survivors ==
    SelectSeq(filePaths,
              LAMBDA p : includeDeclarationFiles(extraOptions) \/ ~IsDeclarationPath(p))

\* C7: parsePaths returns one File per surviving path, in the order of
\* tsConfig.files, unsorted and with duplicates kept; the i-th File's fullPath
\* is the i-th surviving path resolved against rootDir.
C7_OneFilePerSurvivorInOrder ==
    ppc = "done" =>
        /\ returned # NoResult
        /\ Len(returned[1]) = Len(Survivors)
        /\ \A i \in DOMAIN Survivors :
             returned[1][i].fullPath = resolve(rootDir, Survivors[i])

C7_Witness ==
    /\ ppc = "done"
    /\ filePaths = <<PathBIndex, PathA, PathBIndex>>
    /\ Len(returned[1]) = 3
    /\ returned[1][1].fullPath = returned[1][3].fullPath

\* C8: when reading or parsing one surviving file fails, parsePaths ends with
\* that error and returns nothing: no partial result, the failing file read
\* once, no later file read, and nothing happens afterwards.
C8_FailureAbortsWholeRun ==
    [][/\ ppc # "threw"
       /\ ppc' = "threw" =>
            /\ returned' = NoResult
            /\ Len(reads') = Len(acc') + 1
            /\ \A i \in DOMAIN reads' : reads'[i] = resolve(rootDir, surviving'[i])]_vars

C8_Witness ==
    /\ ppc = "threw"
    /\ Len(acc) = 1
    /\ Len(surviving) = 3
    /\ Len(reads) = 2
    /\ returned = NoResult

-----------------------------------------------------------------------------
(* Properties of extractFilename, checked under SpecName *)

UnderRoot(f) == rootDir \o <<Slash>> \o f

\* C2: foo.ts, foo/index.ts, foo.d.ts and foo/index.d.ts under the root all
\* normalize to foo, for every root directory and base name foo.
C2_AllFormsNormalizeToBase ==
    npc = "done" =>
        \A b \in BaseNames :
            path \in { UnderRoot(FormPlain(b)), UnderRoot(FormIndex(b)),
                       UnderRoot(FormDecl(b)), UnderRoot(FormIndexDecl(b)) }
                => name = b

-----------------------------------------------------------------------------
(* Properties of mapFile, checked under SpecMap *)

VisitStep == visited' = visited + 1

\* the closest preceding comment of n is exactly the directive
ClosestCommentIsDirective(n) ==
    Len(n.comments) > 0 /\ n.comments[Len(n.comments)] = Directive

WithoutComments(n) == [n EXCEPT !.comments = <<>>]

\* C3: a statement whose closest preceding comment is exactly the directive
\* leaves imports, exports and exportLocations unchanged and runs no branch;
\* a statement with no comment or any other closest comment is not skipped
\* and is processed as the same statement without comments would be.
C3_DirectiveSkipsStatement ==
    [][VisitStep =>
         IF ClosestCommentIsDirective(node')
         THEN /\ imports' = imports
              /\ exports' = exports
              /\ exportLocations' = exportLocations
              /\ fired' = {"skip"}
         ELSE /\ "skip" \notin fired'
              /\ CurrentState' =
                   VisitNode(CurrentState, WithoutComments(node'), visited', rootDir, path)]_vars

C3_Witness ==
    /\ visited = 2
    /\ node.comments = <<OtherComment, Directive>>
    /\ node.stmt.kind = "ExportAssignment"
    /\ fired = {"skip"}
    /\ exports = <<NameF>>
    /\ exportLocations = <<[name |-> NameF, pos |-> 1]>>

Processed(n) == ~ClosestCommentIsDirective(n)

IsReExportFrom(n) == n.stmt.kind = "ExportDeclaration" /\ n.stmt.from # None
IsWildcardReExport(n) == IsReExportFrom(n) /\ n.stmt.what = star
IsNamedReExport(n) == IsReExportFrom(n) /\ n.stmt.what # star

\* the module key of the statement's specifier, if it has one
KeyOf(n) == getKey(rootDir, path, n.stmt.from[1])

WildcardRegistered(n) ==
    /\ KeyOf(n)[1] \in DOMAIN imports'
    /\ imports'[KeyOf(n)[1]] = ItemsOf(imports, KeyOf(n)[1]) \o star
    /\ exports' = Append(exports, WildcardEntry(KeyOf(n)[1]))

AsPlainImport(n) == [n EXCEPT !.stmt.kind = "ImportDeclaration"]

NamedRegistered(n) ==
    /\ KeyOf(n)[1] \in DOMAIN imports'
    /\ imports' = VisitNode(CurrentState, AsPlainImport(n), visited', rootDir, path).imports
    /\ exports' = exports \o n.stmt.what

IsDefaultExport(n) ==
    \/ n.stmt.kind = "ExportAssignment"
    \/ n.stmt.kind = "Other" /\ {"export", "default"} \subseteq n.stmt.mods

\* C6: a non-suppressed statement with the export and default modifiers, or
\* an export assignment, contributes exactly the export 'default' with one
\* location entry named 'default', never its declared name; a file that is
\* only export default function f(){} yields exports = ['default'].
C6_DefaultExportContributesDefaultOnly ==
    [][/\ VisitStep /\ Processed(node') /\ IsDefaultExport(node') =>
            /\ exports' = Append(exports, DefaultName)
            /\ exportLocations' =
                 Append(exportLocations, [name |-> DefaultName, pos |-> visited'])
       /\ mpc' = "returned" /\ visited = 1 /\ Processed(node) /\ IsDefaultExport(node) =>
            file'.exports = <<DefaultName>>]_vars

C6_Witness ==
    /\ mpc = "returned"
    /\ visited = 1
    /\ node.comments = <<>>
    /\ node.stmt.kind = "Other"
    /\ node.stmt.mods = {"export", "default"}
    /\ node.stmt.declName = Some(NameF)
    /\ file.exports = <<DefaultName>>
    /\ file.exportLocations = <<[name |-> DefaultName, pos |-> 1]>>

Classified == {"import", "exportAssignment", "exportLocal", "exportFrom"}
Unclassified == {"dynamic", "exportModifier"}

ExportedWithDynamicImport(n) ==
    /\ Processed(n)
    /\ n.stmt.kind = "Other"
    /\ "export" \in n.stmt.mods
    /\ n.stmt.dyn # <<>>

C10_LocationsInStepWithExports ==
    /\ Len(exportLocations) = Len(exports)
    /\ \A i \in DOMAIN exports :
         i \in DOMAIN exportLocations => exportLocations[i].name = exports[i]

====
